---------------------------- MODULE Spec2Model ----------------------------
(***************************************************************************)
(* Model of apps/taillight2/main.cpp: projection of tracked 3D boxes into  *)
(* the camera image, region-of-interest filter, sort by distance,          *)
(* visibility filter, wireframe rendering and mask rasterisation.          *)
(*                                                                         *)
(* Number representation.  The program computes in IEEE float.  The model  *)
(* computes in integers (fixed point):                                     *)
(*   - world coordinates, extents and distances are in centimetres;        *)
(*   - the entries of RT and of the projection P are in hundredths;        *)
(*   - K is rounded to whole pixels;                                       *)
(*   - a projected coordinate is kept as the homogeneous triple            *)
(*     <<xh, yh, w>> and stands for the quotients xh/w and yh/w; a triple  *)
(*     with w = 0 stands for a non-finite value (inf or NaN);              *)
(*   - yaw is one of a few named angles whose cosine and sine are exact    *)
(*     in tenths.                                                          *)
(***************************************************************************)
EXTENDS Integers, Sequences, FiniteSets, TLC

(***************************************************************************)
(* Bounds of the model.                                                    *)
(***************************************************************************)
MaxRows == 3

(***************************************************************************)
(* Small arithmetic helpers.                                               *)
(***************************************************************************)
Abs(a) == IF a < 0 THEN -a ELSE a

\* a / b rounded to the nearest integer (b # 0)
RoundDiv(a, b) ==
    LET q == (2 * Abs(a) + Abs(b)) \div (2 * Abs(b))
    IN  IF (a >= 0) = (b > 0) THEN q ELSE -q

\* a / b truncated toward zero (b # 0): the C++ float -> int conversion
TruncDiv(a, b) ==
    LET q == Abs(a) \div Abs(b)
    IN  IF (a >= 0) = (b > 0) THEN q ELSE -q

RECURSIVE SqrtSearch(_, _, _)
SqrtSearch(n, lo, hi) ==
    IF lo >= hi THEN lo
    ELSE LET mid == (lo + hi + 1) \div 2
         IN  IF mid * mid <= n THEN SqrtSearch(n, mid, hi)
                               ELSE SqrtSearch(n, lo, mid - 1)

\* floor of the square root of n, for 0 <= n < 46340^2
ISqrt(n) == SqrtSearch(n, 0, 46339)

RECURSIVE SumOver(_, _)
SumOver(f, S) ==
    IF S = {} THEN 0
    ELSE LET e == CHOOSE x \in S : TRUE IN f[e] + SumOver(f, S \ {e})

SetMin(S) == CHOOSE m \in S : \A x \in S : m <= x
SetMax(S) == CHOOSE m \in S : \A x \in S : m >= x

(***************************************************************************)
(* CalibParams                                                             *)
(***************************************************************************)
\* CalibParams::RT, entries in hundredths
RTSource ==
    << << -1,    0, 100, 162 >>,
       << -100, -1,  -1,  30 >>,
       << 1,  -100,   0, 146 >>,
       << 0,     0,   0, 100 >> >>

\* a transform whose rotation block has two equal rows: determinant 0
RTSingular ==
    << << -1,    0, 100, 162 >>,
       << -1,    0, 100,  30 >>,
       << 1,  -100,   0, 146 >>,
       << 0,     0,   0, 100 >> >>

\* CalibParams::K, whole pixels
K ==
    << << 819, 0, 640 >>,
       << 0, 819, 240 >>,
       << 0,   0,   1 >> >>

\* the matrix m without row i and column j
Minor(m, i, j) ==
    LET n  == Len(m)
        rs == [r \in 1..(n - 1) |-> IF r < i THEN r ELSE r + 1]
        cs == [c \in 1..(n - 1) |-> IF c < j THEN c ELSE c + 1]
    IN  [r \in 1..(n - 1) |-> [c \in 1..(n - 1) |-> m[rs[r]][cs[c]]]]

RECURSIVE Det(_)
Det(m) ==
    IF Len(m) = 1 THEN m[1][1]
    ELSE LET term(j) == (IF j % 2 = 1 THEN 1 ELSE -1) * m[1][j] * Det(Minor(m, 1, j))
         IN  SumOver([j \in 1..Len(m) |-> term(j)], 1..Len(m))

Cofactor(m, i, j) ==
    (IF (i + j) % 2 = 0 THEN 1 ELSE -1) * Det(Minor(m, i, j))

\* Eigen's fixed-size 4x4 inverse(): cofactors divided by the determinant,
\* with no invertibility check.  A zero determinant gives a matrix of
\* non-finite entries (finite = FALSE); nothing is thrown.
Inverse(m) ==
    LET d == Det(m)
    IN  IF d = 0
        THEN [finite |-> FALSE, m |-> [i \in 1..4 |-> [j \in 1..4 |-> 0]]]
        ELSE [finite |-> TRUE,
              m |-> [i \in 1..4 |-> [j \in 1..4 |->
                        RoundDiv(Cofactor(m, j, i), d \div 10000)]]]

\* CalibParams::P = K * RT.inverse().topRows(3), entries in hundredths
Projection(k, rt) ==
    LET inv == Inverse(rt)
    IN  [finite |-> inv.finite,
         m |-> [i \in 1..3 |-> [j \in 1..4 |->
                   k[i][1] * inv.m[1][j] + k[i][2] * inv.m[2][j]
                                         + k[i][3] * inv.m[3][j]]]]


(***************************************************************************)
(* Instance                                                                *)
(***************************************************************************)
\* heading angles of the model and their cosine and sine, in tenths
Yaws == {"0", "atan(4/3)"}
CosYaw(yaw) == CASE yaw = "0" -> 10 [] yaw = "atan(4/3)" -> 6
SinYaw(yaw) == CASE yaw = "0" -> 0  [] yaw = "atan(4/3)" -> 8

Corners == 0..7

\* the unit corners written into mCorners3D: one row per axis, one column
\* per corner
UnitCornersSzSlowest ==
    << << -1,  1, -1,  1, -1,  1, -1,  1 >>,
       << -1, -1,  1,  1, -1, -1,  1,  1 >>,
       << -1, -1, -1, -1,  1,  1,  1,  1 >> >>

UnitCorners ==
    << << -1, -1, -1, -1,  1,  1,  1,  1 >>,
       << -1, -1,  1,  1, -1, -1,  1,  1 >>,
       << -1,  1, -1,  1, -1,  1, -1,  1 >> >>

\* mCorners3D.array().colwise() *= (0.5 * mLwh.array())
ScaledCorner(lwh, c) ==
    << UnitCorners[1][c + 1] * (lwh[1] \div 2),
       UnitCorners[2][c + 1] * (lwh[2] \div 2),
       UnitCorners[3][c + 1] * (lwh[3] \div 2) >>

\* rotation about the world origin after the translation
TransformTranslateFirst(center, yaw, p) ==
    LET x == p[1] + center[1]
        y == p[2] + center[2]
    IN  << (CosYaw(yaw) * x - SinYaw(yaw) * y) \div 10,
           (SinYaw(yaw) * x + CosYaw(yaw) * y) \div 10,
           center[3] + p[3] >>

\* Translation3f(mXyzCenter) * AngleAxisf(mYaw, (0,0,1)) applied to p
Transform(center, yaw, p) ==
    << center[1] + (CosYaw(yaw) * p[1] - SinYaw(yaw) * p[2]) \div 10,
       center[2] + (SinYaw(yaw) * p[1] + CosYaw(yaw) * p[2]) \div 10,
       center[3] + p[3] >>

\* (P * X.homogeneous()): the homogeneous image point of world point X.
\* hnormalized() divides the first two entries by the third without any
\* check; the triple stands for those quotients.  Arithmetic on a
\* non-finite P gives NaN, written <<0, 0, 0>>.
Project(proj, X) ==
    IF proj.finite
    THEN [i \in 1..3 |-> proj.m[i][1] * X[1] + proj.m[i][2] * X[2]
                         + proj.m[i][3] * X[3] + proj.m[i][4] * 100]
    ELSE << 0, 0, 0 >>

GroundNorm(X) == ISqrt(X[1] * X[1] + X[2] * X[2])

DistMaxCoeff(corners3D) == SetMax({GroundNorm(corners3D[c]) : c \in Corners})

\* mCorners3D.topRows(2).colwise().norm().minCoeff()
Dist(corners3D) == SetMin({GroundNorm(corners3D[c]) : c \in Corners})

\* Instance::Instance(inputRow); src is the position of the row in "objs"
Instance(row, src, proj) ==
    LET center    == << row[3], row[4], row[5] >>
        lwh       == << row[6], row[7], row[8] >>
        yaw       == row[9]
        corners3D == [c \in Corners |-> Transform(center, yaw, ScaledCorner(lwh, c))]
    IN  [mClassId   |-> row[1],
         mTrackId   |-> row[2],
         mXyzCenter |-> center,
         mLwh       |-> lwh,
         mYaw       |-> yaw,
         mCorners3D |-> corners3D,
         mCorners2D |-> [c \in Corners |-> Project(proj, corners3D[c])],
         mDist      |-> Dist(corners3D),
         src        |-> src]

\* cornersX.array() > 2 (metres)
NearGuardX == 200

\* float comparisons of a quotient n/w with an integer; all are false for
\* a non-finite quotient except those an infinity satisfies
QuotGtZero(n, w) == (w > 0 /\ n > 0) \/ (w < 0 /\ n < 0) \/ (w = 0 /\ n > 0)
QuotLt(n, w, bound) ==
    (w > 0 /\ n < bound * w) \/ (w < 0 /\ n > bound * w) \/ (w = 0 /\ n < 0)

\* one entry of the array "valid" of isCornersInImage
CornerValid(inst, c, imgW, imgH) ==
    LET h == inst.mCorners2D[c]
    IN  /\ QuotGtZero(h[1], h[3]) /\ QuotLt(h[1], h[3], imgW)
        /\ QuotGtZero(h[2], h[3]) /\ QuotLt(h[2], h[3], imgH)
        /\ inst.mCorners3D[c][1] > NearGuardX

IsCornersInImageAny(inst, imgW, imgH) ==
    \E c \in Corners : CornerValid(inst, c, imgW, imgH)

\* Instance::isCornersInImage: valid.all()
IsCornersInImage(inst, imgW, imgH) ==
    \A c \in Corners : CornerValid(inst, c, imgW, imgH)

\* static_cast<int>(q + 0.5) of the quotient n/w (w # 0)
Pixel(n, w) == TruncDiv(2 * n + w, 2 * w)

\* the cv::Point of corner c
CornerPoint(inst, c) ==
    LET h == inst.mCorners2D[c]
    IN  << Pixel(h[1], h[3]), Pixel(h[2], h[3]) >>

\* the two colours of renderToImg, as cv::Scalar (B, G, R)
BoxColor == << 0, 0, 255 >>
FrontColor == << 255, 0, 0 >>

BoxPairsWrongEdge ==
    << <<0, 1>>, <<0, 2>>, <<0, 4>>, <<1, 3>>, <<1, 4>>, <<2, 3>>,
       <<2, 6>>, <<3, 7>>, <<4, 5>>, <<4, 6>>, <<5, 7>>, <<6, 7>> >>

BoxPairs ==
    << <<0, 1>>, <<0, 2>>, <<0, 4>>, <<1, 3>>, <<1, 5>>, <<2, 3>>,
       <<2, 6>>, <<3, 7>>, <<4, 5>>, <<4, 6>>, <<5, 7>>, <<6, 7>> >>

FrontPairs == << <<4, 5>>, <<4, 6>>, <<5, 7>>, <<6, 7>> >>

\* the lambda renderPairs: one cv::line call per pair, in list order
RenderPairs(inst, pairs, color) ==
    [n \in 1..Len(pairs) |->
        [src   |-> inst.src,
         a     |-> pairs[n][1],
         b     |-> pairs[n][2],
         p1    |-> CornerPoint(inst, pairs[n][1]),
         p2    |-> CornerPoint(inst, pairs[n][2]),
         color |-> color]]

\* Instance::renderToImg: the cv::line calls it makes, in order
RenderToImg(inst) ==
    RenderPairs(inst, BoxPairs, BoxColor) \o RenderPairs(inst, FrontPairs, FrontColor)

\* the canvas pixels the model follows
Probes == {<<630, 250>>, <<700, 300>>, <<520, 250>>, <<780, 300>>, <<520, 500>>, <<300, 100>>}

\* twice the signed area of the triangle a, b, p
Cross(a, b, p) == (b[1] - a[1]) * (p[2] - a[2]) - (b[2] - a[2]) * (p[1] - a[1])

\* p lies in the closed triangle a, b, c (a segment or a point when the
\* three are collinear)
InTriangle(p, a, b, c) ==
    /\ \A i \in 1..2 :
          /\ p[i] >= a[i] \/ p[i] >= b[i] \/ p[i] >= c[i]
          /\ p[i] <= a[i] \/ p[i] <= b[i] \/ p[i] <= c[i]
    /\ LET d1 == Cross(a, b, p)
           d2 == Cross(b, c, p)
           d3 == Cross(c, a, p)
       IN  (d1 >= 0 /\ d2 >= 0 /\ d3 >= 0) \/ (d1 <= 0 /\ d2 <= 0 /\ d3 <= 0)

\* p lies in the convex hull of the points pts[0..7]: a point of the hull
\* lies in a triangle of three of the points
InHull(p, pts) ==
    /\ \A d \in 1..2 :
          /\ \E c \in Corners : pts[c][d] <= p[d]
          /\ \E c \in Corners : pts[c][d] >= p[d]
    /\ \E i \in 0..5 : \E j \in (i + 1)..6 : \E k \in (j + 1)..7 :
          InTriangle(p, pts[i], pts[j], pts[k])

\* cv::convexHull(points, hull) followed by cv::fillConvexPoly(img, hull, ..):
\* the canvas pixels that are filled
HullPixels(inst) ==
    UNION {{p \in Probes : InHull(p, pts)} :
              pts \in {[c \in Corners |-> CornerPoint(inst, c)]}}

\* the value getMask fills with: cv::Scalar{1.0}
MaskMarker == 1

MaskValuePerTrack(inst) == inst.mTrackId

MaskValue(inst) == MaskMarker

\* cv::fillConvexPoly on canvas m: every pixel of the polygon is written
FillConvexPoly(m, pixels, value) ==
    [p \in DOMAIN m |-> IF p \in pixels THEN value ELSE m[p]]

(***************************************************************************)
(* main                                                                    *)
(***************************************************************************)
ExcludedClass == 2
RoiMinX == 400
RoiMaxX == 4000
RoiMaxAbsY == 1000

\* The "abs" of line 167 is unqualified and the file includes neither
\* <cmath> nor <cstdlib>.  Which function it names depends on the headers
\* the build pulls in: with only ::abs(int) visible the float argument is
\* converted to int (truncated toward zero, metres); with the overloads of
\* std::abs visible in the global namespace the float one is taken.
Overloads == {"int", "float"}

AbsCall(overload, y) ==
    IF overload = "int" THEN 100 * Abs(TruncDiv(y, 100)) ELSE Abs(y)

\* "Simple filtering": TRUE when the loop body reaches "continue"
RoiSkips(overload, row) ==
    \/ row[1] = ExcludedClass
    \/ row[3] < RoiMinX
    \/ row[3] > RoiMaxX
    \/ AbsCall(overload, row[4]) > RoiMaxAbsY

\* the rows a frame's "objs" may hold:
\* classId, trackId, x, y, z, length, width, height (cm), yaw
Rows ==
    { << 0, 1, 1000, 0, 100, 400, 200, 150, "0" >>,
      << 1, 2, 1000, 0, 100, 400, 200, 150, "atan(4/3)" >>,
      << 0, 3, 600, 30, 100, 200, 100, 150, "0" >>,
      << 1, 4, 2100, 30, 100, 200, 100, 150, "0" >>,
      << 3, 5, 400, 30, 150, 420, 0, 0, "0" >>,
      << 2, 6, 1000, 0, 100, 400, 200, 150, "0" >>,
      << 0, 7, 300, 0, 100, 100, 100, 100, "0" >>,
      << 0, 8, 500, -1050, 100, 100, 100, 100, "0" >> }

ObjLists == UNION {[1..n -> Rows] : n \in 0..MaxRows}

\* img.cols, img.rows of the image cv::imread returns (the file is taken
\* to be readable)
ImgSizes == {<<1280, 720>>, <<720, 480>>}

IsPermutation(f, n) ==
    /\ f \in [1..n -> 1..n]
    /\ \A i, j \in 1..n : f[i] = f[j] => i = j

IsAscending(vec) ==
    \A i \in 1..(Len(vec) - 1) : ~(vec[i + 1].mDist < vec[i].mDist)

\* std::sort with the comparison lhs.dist() < rhs.dist(): the result is a
\* permutation of the input in ascending order; the order of elements that
\* compare equal is unspecified
SortOutcomes(vec) ==
    {w \in {[i \in 1..Len(vec) |-> vec[f[i]]] :
                f \in {g \in [1..Len(vec) -> 1..Len(vec)] : IsPermutation(g, Len(vec))}} :
        IsAscending(w)}

RECURSIVE SwapRemove(_, _, _, _)
SwapRemove(vec, i, imgW, imgH) ==
    IF i > Len(vec) THEN vec
    ELSE IF ~IsCornersInImage(vec[i], imgW, imgH)
         THEN SwapRemove([j \in 1..(Len(vec) - 1) |->
                              IF j = i THEN vec[Len(vec)] ELSE vec[j]],
                         i, imgW, imgH)
         ELSE SwapRemove(vec, i + 1, imgW, imgH)

EraseSwapWithLast(vec, imgW, imgH) == SwapRemove(vec, 1, imgW, imgH)

RECURSIVE RemoveIf(_, _, _, _, _)
RemoveIf(vec, i, out, imgW, imgH) ==
    IF i > Len(vec) THEN out
    ELSE IF ~IsCornersInImage(vec[i], imgW, imgH)
         THEN RemoveIf(vec, i + 1, out, imgW, imgH)
         ELSE RemoveIf(vec, i + 1, Append(out, vec[i]), imgW, imgH)

\* instVec.erase(std::remove_if(.., !isCornersInImage(img.cols, img.rows)), end)
EraseInvisible(vec, imgW, imgH) == RemoveIf(vec, 1, << >>, imgW, imgH)

(***************************************************************************)
(* State                                                                   *)
(***************************************************************************)
VARIABLES
    RT,          \* CalibParams::RT
    P,           \* CalibParams::P, set by static initialisation
    absOverload, \* which "abs" the build resolved at line 167
    pc,          \* position in main
    objs,        \* eachFrame["objs"]
    imgW, imgH,  \* img.cols, img.rows
    objIdx,      \* position of eachObj in objs
    instVec,     \* std::vector<Instance> instVec
    drawIdx,     \* position of the range-for over instVec (render, mask)
    lineCalls,   \* the cv::line calls made on img, in order
    mask,        \* the mask canvas at the probe pixels
    fillCalls    \* the getMask calls made on mask, in order

vars == << RT, P, absOverload, pc, objs, imgW, imgH, objIdx,
           instVec, drawIdx, lineCalls, mask, fillCalls >>

calib == << RT, P, absOverload >>

\* cv::Mat mask{img.rows, img.cols, CV_32FC1, cv::Scalar(0)}
NewMask(w, h) == [p \in {q \in Probes : q[1] < w /\ q[2] < h} |-> 0]

InitFrame ==
    /\ pc = "start"
    /\ objs = << >>
    /\ imgW = 0
    /\ imgH = 0
    /\ objIdx = 1
    /\ instVec = << >>
    /\ drawIdx = 1
    /\ lineCalls = << >>
    /\ mask = NewMask(0, 0)
    /\ fillCalls = << >>

\* the program as built from the source: RT is the constant of lines 19-24
Init ==
    /\ RT = RTSource
    /\ P = Projection(K, RT)
    /\ absOverload \in Overloads
    /\ InitFrame

\* the program with the calibration constants as an input
InitCalib ==
    /\ RT \in {RTSource, RTSingular}
    /\ P = Projection(K, RT)
    /\ absOverload \in Overloads
    /\ InitFrame

(***************************************************************************)
(* Steps of main                                                           *)
(***************************************************************************)
\* lines 147-149: the JSON file is parsed
ReadJson ==
    /\ pc = "start"
    /\ pc' = "frames"
    /\ UNCHANGED << calib, objs, imgW, imgH, objIdx, instVec, drawIdx,
                    lineCalls, mask, fillCalls >>

\* lines 151-158: the next frame is entered, its image read, instVec created
NextFrame ==
    /\ pc = "frames"
    /\ \E list \in ObjLists : \E size \in ImgSizes :
          /\ objs' = list
          /\ imgW' = size[1]
          /\ imgH' = size[2]
          /\ pc' = IF Len(list) = 0 THEN "sort" ELSE "objs"
    /\ objIdx' = 1
    /\ instVec' = << >>
    /\ drawIdx' = 1
    /\ lineCalls' = << >>
    /\ mask' = NewMask(0, 0)
    /\ fillCalls' = << >>
    /\ UNCHANGED calib

\* line 151: the range-for over the frames ends
EndOfFrames ==
    /\ pc = "frames"
    /\ pc' = "done"
    /\ UNCHANGED << calib, objs, imgW, imgH, objIdx, instVec, drawIdx,
                    lineCalls, mask, fillCalls >>

AfterObj == IF objIdx + 1 > Len(objs) THEN "sort" ELSE "objs"

\* lines 159-169: the row is skipped by the "Simple filtering"
SkipObj ==
    /\ pc = "objs"
    /\ RoiSkips(absOverload, objs[objIdx])
    /\ objIdx' = objIdx + 1
    /\ pc' = AfterObj
    /\ UNCHANGED << calib, objs, imgW, imgH, instVec, drawIdx,
                    lineCalls, mask, fillCalls >>

\* lines 159-172: the row passes and instVec.emplace_back(eachObj) runs
GenerateInstance ==
    /\ pc = "objs"
    /\ ~RoiSkips(absOverload, objs[objIdx])
    /\ instVec' = Append(instVec, Instance(objs[objIdx], objIdx, P))
    /\ objIdx' = objIdx + 1
    /\ pc' = AfterObj
    /\ UNCHANGED << calib, objs, imgW, imgH, drawIdx,
                    lineCalls, mask, fillCalls >>

\* lines 175-178
Sort ==
    /\ pc = "sort"
    /\ instVec' \in SortOutcomes(instVec)
    /\ pc' = "filter"
    /\ UNCHANGED << calib, objs, imgW, imgH, objIdx, drawIdx,
                    lineCalls, mask, fillCalls >>

\* lines 180-184
Filter ==
    /\ pc = "filter"
    /\ instVec' = EraseInvisible(instVec, imgW, imgH)
    /\ drawIdx' = 1
    /\ pc' = "render"
    /\ UNCHANGED << calib, objs, imgW, imgH, objIdx,
                    lineCalls, mask, fillCalls >>

\* lines 187-189: one pass of the rendering loop
Render ==
    /\ pc = "render"
    /\ drawIdx <= Len(instVec)
    /\ lineCalls' = lineCalls \o RenderToImg(instVec[drawIdx])
    /\ drawIdx' = drawIdx + 1
    /\ UNCHANGED << calib, pc, objs, imgW, imgH, objIdx, instVec,
                    mask, fillCalls >>

\* line 192: the rendering loop has ended and the mask canvas is created
CreateMask ==
    /\ pc = "render"
    /\ drawIdx > Len(instVec)
    /\ mask' = NewMask(imgW, imgH)
    /\ drawIdx' = 1
    /\ pc' = "mask"
    /\ UNCHANGED << calib, objs, imgW, imgH, objIdx, instVec,
                    lineCalls, fillCalls >>

\* lines 193-195 and 118-127: one pass of the mask loop, Instance::getMask
Rasterize ==
    /\ pc = "mask"
    /\ drawIdx <= Len(instVec)
    /\ \E hull \in {HullPixels(instVec[drawIdx]) \cap DOMAIN mask} :
          /\ mask' = FillConvexPoly(mask, hull, MaskValue(instVec[drawIdx]))
          /\ fillCalls' = Append(fillCalls,
                                 [src    |-> instVec[drawIdx].src,
                                  pixels |-> hull,
                                  value  |-> MaskValue(instVec[drawIdx])])
    /\ drawIdx' = drawIdx + 1
    /\ UNCHANGED << calib, pc, objs, imgW, imgH, objIdx, instVec,
                    lineCalls >>

\* lines 197-198: both canvases are shown
Show ==
    /\ pc = "mask"
    /\ drawIdx > Len(instVec)
    /\ pc' = "waitKey"
    /\ UNCHANGED << calib, objs, imgW, imgH, objIdx, instVec, drawIdx,
                    lineCalls, mask, fillCalls >>

\* the locals of the loop body (img, instVec, mask) are destroyed
EndOfBody ==
    /\ objs' = << >>
    /\ imgW' = 0
    /\ imgH' = 0
    /\ objIdx' = 1
    /\ instVec' = << >>
    /\ drawIdx' = 1
    /\ lineCalls' = << >>
    /\ mask' = NewMask(0, 0)
    /\ fillCalls' = << >>

\* lines 199-200: the key is 'q'; the loop is left and main returns
WaitKeyQuit ==
    /\ pc = "waitKey"
    /\ pc' = "done"
    /\ EndOfBody
    /\ UNCHANGED calib

\* lines 199-201: any other key; the loop goes on to the next frame
WaitKeyContinue ==
    /\ pc = "waitKey"
    /\ pc' = "frames"
    /\ EndOfBody
    /\ UNCHANGED calib

Next ==
    \/ ReadJson
    \/ NextFrame
    \/ EndOfFrames
    \/ SkipObj
    \/ GenerateInstance
    \/ Sort
    \/ Filter
    \/ Render
    \/ CreateMask
    \/ Rasterize
    \/ Show
    \/ WaitKeyQuit
    \/ WaitKeyContinue

Spec == Init /\ [][Next]_vars

SpecCalib == InitCalib /\ [][Next]_vars

(***************************************************************************)
(* Properties                                                              *)
(***************************************************************************)
InstSet == {instVec[n] : n \in 1..Len(instVec)}

\* the quotient n/w is a finite number strictly between 0 and bound
StrictlyInside(n, w, bound) ==
    \/ w > 0 /\ 0 < n /\ n < bound * w
    \/ w < 0 /\ 0 > n /\ n > bound * w

AllCornersValid(inst, w, h) ==
    \A c \in Corners :
        /\ StrictlyInside(inst.mCorners2D[c][1], inst.mCorners2D[c][3], w)
        /\ StrictlyInside(inst.mCorners2D[c][2], inst.mCorners2D[c][3], h)
        /\ inst.mCorners3D[c][1] > 200

\* C1: when the visibility filter is about to run, for every instance and
\* every image size, isCornersInImage is true exactly when all 8 corners
\* have 0 < u < W, 0 < v < H and world x > 2 m; it is false as soon as one
\* corner has x <= 2 m or one corner lies on or outside the border.
C1_VisibleIffAllCornersValid ==
    pc = "filter" =>
        \A inst \in InstSet : \A size \in ImgSizes \cup {<<imgW, imgH>>} :
            /\ IsCornersInImage(inst, size[1], size[2])
                  <=> AllCornersValid(inst, size[1], size[2])
            /\ (\E c \in Corners : inst.mCorners3D[c][1] <= 200)
                  => ~IsCornersInImage(inst, size[1], size[2])
            /\ (\E c \in Corners :
                    ~StrictlyInside(inst.mCorners2D[c][1], inst.mCorners2D[c][3], size[1]))
                  => ~IsCornersInImage(inst, size[1], size[2])

\* the filter is about to judge, in one frame, an instance that is wholly
\* inside the image but has some (not all) corners at x <= 2 m, an
\* instance that is visible, and an instance beyond the guard that
\* crosses the border
C1_Witness ==
    /\ pc = "filter"
    /\ \E inst \in InstSet :
          /\ \E c \in Corners : inst.mCorners3D[c][1] <= 200
          /\ \E c \in Corners : inst.mCorners3D[c][1] > 200
          /\ \A c \in Corners :
                /\ StrictlyInside(inst.mCorners2D[c][1], inst.mCorners2D[c][3], imgW)
                /\ StrictlyInside(inst.mCorners2D[c][2], inst.mCorners2D[c][3], imgH)
          /\ ~IsCornersInImage(inst, imgW, imgH)
    /\ \E inst \in InstSet : IsCornersInImage(inst, imgW, imgH)
    /\ \E inst \in InstSet :
          /\ \A c \in Corners : inst.mCorners3D[c][1] > 200
          /\ ~IsCornersInImage(inst, imgW, imgH)

\* a row is inside the region of interest as the specification states it
InsideRoi(row) ==
    /\ row[1] # 2
    /\ 400 <= row[3] /\ row[3] <= 4000
    /\ -1000 <= row[4] /\ row[4] <= 1000

\* C2: while the rows of a frame are being read and until the sort, an
\* Instance exists for a row already handled exactly when the row's classId
\* is not 2, 4 m <= x <= 40 m and |y| <= 10 m.
C2_RoiKeepsExactlyInsideRows ==
    pc \in {"objs", "sort"} =>
        \A i \in 1..(objIdx - 1) :
            (\E inst \in InstSet : inst.src = i) <=> InsideRoi(objs[i])

\* C3: after the sort, two instances with the same distance stand in the
\* order of their input rows.
C3_SortIsStable ==
    pc = "filter" =>
        \A i, j \in 1..Len(instVec) :
            (i < j /\ instVec[i].mDist = instVec[j].mDist)
                => instVec[i].src < instVec[j].src

\* the input rows of the instances, in the order of the sequence
SrcsOf(seq) == [n \in 1..Len(seq) |-> seq[n].src]

\* the input rows of the instances drawn so far, one entry per 16 lines
RenderedSrcs == [n \in 1..(Len(lineCalls) \div 16) |-> lineCalls[16 * n].src]

C4_StepOrder ==
    /\ pc \in {"objs", "sort", "filter"} => lineCalls = << >> /\ fillCalls = << >>
    /\ pc = "sort" => objIdx > Len(objs)
    /\ pc = "filter" => IsAscending(instVec)
    /\ pc \in {"render", "mask", "waitKey"} =>
          /\ IsAscending(instVec)
          /\ \A inst \in InstSet : AllCornersValid(inst, imgW, imgH)
          /\ \A i, j \in 1..Len(instVec) : i < j => instVec[i].src # instVec[j].src
    /\ pc = "render" =>
          /\ fillCalls = << >>
          /\ Len(lineCalls) = 16 * (drawIdx - 1)
          /\ RenderedSrcs = SubSeq(SrcsOf(instVec), 1, drawIdx - 1)
    /\ pc = "mask" =>
          /\ RenderedSrcs = SrcsOf(instVec)
          /\ SrcsOf(fillCalls) = SubSeq(SrcsOf(instVec), 1, drawIdx - 1)
    /\ pc = "waitKey" =>
          /\ RenderedSrcs = SrcsOf(instVec)
          /\ SrcsOf(fillCalls) = SrcsOf(instVec)

C4_FilterStep ==
    pc = "filter" =>
        LET Visible(inst) == AllCornersValid(inst, imgW, imgH)
        IN  instVec' = SelectSeq(instVec, Visible)

\* C4: in a frame nothing is drawn before the rows are filtered and the
\* instances sorted; the visibility filter keeps exactly the visible
\* instances in the order the sort gave them; the render pass then visits
\* every survivor once in that ascending order, and only after it has ended
\* does the mask pass visit every survivor once in the same order.
C4_PipelineOrder == [](C4_StepOrder) /\ [][C4_FilterStep]_vars

\* a frame at its end in which two instances were drawn and masked and an
\* instance that the sort had put first was removed by the visibility filter
C4_Witness ==
    /\ pc = "waitKey"
    /\ Len(instVec) = 2
    /\ Len(fillCalls) = 2
    /\ \E i \in 1..Len(objs) :
          /\ ~RoiSkips(absOverload, objs[i])
          /\ i \notin {inst.src : inst \in InstSet}
          /\ Dist(Instance(objs[i], i, P).mCorners3D) < instVec[1].mDist

\* the fill calls that wrote pixel p
WritersOf(p) == {n \in 1..Len(fillCalls) : p \in fillCalls[n].pixels}

\* C5 as stated: with two survivors at different distances, every pixel
\* both silhouettes cover holds the value the farther one wrote, and that
\* value differs from the value the nearer one wrote.
C5_FartherValueDistinguishable ==
    (pc = "waitKey" /\ Len(instVec) = 2 /\ instVec[1].mDist < instVec[2].mDist) =>
        \A p \in fillCalls[1].pixels \cap fillCalls[2].pixels :
            /\ mask[p] = fillCalls[2].value
            /\ fillCalls[2].value # fillCalls[1].value

\* C5 amended: after the mask pass every pixel that some silhouette covers
\* holds the value of the last fill that covered it, which is the fill of
\* the farthest covering instance (last write wins); all fills write the
\* same constant, so the value is the one the nearer instance wrote too.
C5_OverlapHoldsConstantMarker ==
    pc = "waitKey" =>
        /\ \A n \in 1..Len(fillCalls) :
              /\ fillCalls[n].src = instVec[n].src
              /\ fillCalls[n].pixels = HullPixels(instVec[n]) \cap DOMAIN mask
        /\ \A p \in DOMAIN mask :
              IF WritersOf(p) = {} THEN mask[p] = 0
              ELSE /\ mask[p] = fillCalls[SetMax(WritersOf(p))].value
                   /\ \A n \in WritersOf(p) : fillCalls[n].value = mask[p]
                   /\ mask[p] # 0

\* two survivors at distances 5 m and 20 m whose silhouettes share a pixel
C5_Witness ==
    /\ pc = "waitKey"
    /\ Len(instVec) = 2
    /\ instVec[1].mDist = 500
    /\ instVec[2].mDist = 2000
    /\ fillCalls[1].pixels \cap fillCalls[2].pixels # {}

\* the sign of corner index i on each local axis, from its binary digits
SignOf(i, axis) ==
    LET digit == CASE axis = 1 -> (i \div 4) % 2
                   [] axis = 2 -> (i \div 2) % 2
                   [] axis = 3 -> i % 2
    IN  IF digit = 1 THEN 1 ELSE -1

\* twenty times the offset of corner c from the centre, turned back into
\* the box's own axes
LocalOffset20(inst, c) ==
    LET dx == inst.mCorners3D[c][1] - inst.mXyzCenter[1]
        dy == inst.mCorners3D[c][2] - inst.mXyzCenter[2]
        dz == inst.mCorners3D[c][3] - inst.mXyzCenter[3]
    IN  << 2 * (CosYaw(inst.mYaw) * dx + SinYaw(inst.mYaw) * dy),
           2 * (CosYaw(inst.mYaw) * dy - SinYaw(inst.mYaw) * dx),
           20 * dz >>

\* the instances of the frame as constructed, before any is removed
Constructed == IF pc \in {"objs", "sort"} THEN InstSet ELSE {}

\* C6: for every instance constructed, corner i lies at local offset
\* (sx*l/2, sy*w/2, sz*h/2) with i = 4*(sx>0) + 2*(sy>0) + (sz>0); corner 0
\* lies at (-l/2, -w/2, -h/2).
C6_CornerIndexSignPattern ==
    \A inst \in Constructed :
        /\ \A c \in Corners : \A axis \in 1..3 :
              LocalOffset20(inst, c)[axis] = 10 * SignOf(c, axis) * inst.mLwh[axis]
        /\ LocalOffset20(inst, 0) =
              << -10 * inst.mLwh[1], -10 * inst.mLwh[2], -10 * inst.mLwh[3] >>

\* an instance with a heading other than 0, off the origin, with three
\* different extents
C6_Witness ==
    \E inst \in Constructed :
        /\ inst.mYaw # "0"
        /\ inst.mXyzCenter[1] # 0
        /\ Cardinality({inst.mLwh[1], inst.mLwh[2], inst.mLwh[3]}) = 3
        /\ \A axis \in 1..3 : inst.mLwh[axis] > 0

\* C7: for every instance constructed the sum of the 8 corners is 8 times
\* the centre.
C7_CentroidIsCenter ==
    \A inst \in Constructed : \A axis \in 1..3 :
        SumOver([c \in Corners |-> inst.mCorners3D[c][axis]], Corners)
            = 8 * inst.mXyzCenter[axis]

\* two instances with different headings in one frame
C7_Witness ==
    \E a \in Constructed : \E b \in Constructed :
        /\ a.mYaw = "0"
        /\ b.mYaw = "atan(4/3)"
        /\ b.mXyzCenter[1] > 0

IsScenarioA(inst) ==
    /\ inst.mXyzCenter = << 1000, 0, 100 >>
    /\ inst.mLwh = << 400, 200, 150 >>
    /\ inst.mYaw = "0"

\* C8: for every instance constructed, dist is the floor (in cm) of the least
\* sqrt(x^2 + y^2) over the 8 corners; for centre (10,0,1), extents
\* (4,2,1.5), yaw 0 the corners are symmetric about the centre and dist is
\* 806 cm, the floor of sqrt(800^2 + 100^2).
C8_DistIsMinGroundNorm ==
    \A inst \in Constructed :
        /\ \A c \in Corners :
              inst.mDist * inst.mDist
                  <= inst.mCorners3D[c][1] * inst.mCorners3D[c][1]
                     + inst.mCorners3D[c][2] * inst.mCorners3D[c][2]
        /\ \E c \in Corners :
              inst.mCorners3D[c][1] * inst.mCorners3D[c][1]
                  + inst.mCorners3D[c][2] * inst.mCorners3D[c][2]
                  < (inst.mDist + 1) * (inst.mDist + 1)
        /\ IsScenarioA(inst) =>
              /\ \A c \in Corners : \A axis \in 1..3 :
                    inst.mCorners3D[c][axis] + inst.mCorners3D[7 - c][axis]
                        = 2 * inst.mXyzCenter[axis]
              /\ inst.mDist = 806
              /\ 806 * 806 <= 800 * 800 + 100 * 100
              /\ 800 * 800 + 100 * 100 < 807 * 807

\* the instance of scenario A has been constructed, next to one whose
\* corners differ in height above the ground
C8_Witness ==
    /\ \E inst \in Constructed : IsScenarioA(inst) /\ inst.mDist = 806
    /\ \E inst \in Constructed : inst.mDist = 500

\* the pairs of corner indices whose binary digits differ in one place
BoxEdges ==
    {e \in SUBSET Corners :
        \E a \in e : \E b \in e :
            /\ e = {a, b}
            /\ Cardinality({axis \in 1..3 : SignOf(a, axis) # SignOf(b, axis)}) = 1}

FrontEdges == {e \in BoxEdges : \A c \in e : SignOf(c, 1) = 1}

\* C9: during and at the end of the render pass, every renderToImg call
\* made so far drew 16 lines: first the 12 box
\* edges, each once, in the first colour, then the 4 edges of the face
\* sx = +1 in the second colour, each between the pixels of its corners.
C9_TwelveEdgesThenFrontFace ==
    pc = "render" =>
        /\ Len(lineCalls) % 16 = 0
        /\ \A n \in 0..((Len(lineCalls) \div 16) - 1) :
              LET call(m) == lineCalls[16 * n + m]
              IN  /\ \A m \in 1..16 :
                        /\ call(m).src = instVec[n + 1].src
                        /\ call(m).p1 = CornerPoint(instVec[n + 1], call(m).a)
                        /\ call(m).p2 = CornerPoint(instVec[n + 1], call(m).b)
                  /\ \A m \in 1..12 : call(m).color = BoxColor
                  /\ {{call(m).a, call(m).b} : m \in 1..12} = BoxEdges
                  /\ Cardinality(BoxEdges) = 12
                  /\ \A m \in 13..16 : call(m).color = FrontColor
                  /\ {{call(m).a, call(m).b} : m \in 13..16} = FrontEdges
                  /\ Cardinality(FrontEdges) = 4
                  /\ FrontEdges \subseteq BoxEdges
                  /\ FrontEdges = {e \in BoxEdges : e \subseteq 4..7}
                  /\ FrontColor # BoxColor

\* the render pass has drawn two instances
C9_Witness ==
    /\ pc = "render"
    /\ Len(lineCalls) = 32
    /\ lineCalls[1].src # lineCalls[17].src

FramePcs == {"objs", "sort", "filter", "render", "mask", "waitKey"}

=============================================================================
